---- MODULE Spec2Model ----
(***************************************************************************)
(* A model of sync.py: the unattended synchronizer of a local git clone.   *)
(*                                                                         *)
(* State: the files under LOCAL_REPO (disk), the git backend (the local    *)
(* branch, origin/BRANCH, their merge base, the index, a merge or rebase   *)
(* in progress) and, per process, the position and the locals of           *)
(* sync_repo().                                                            *)
(*                                                                         *)
(* Abstractions.                                                           *)
(*  - A file's content is a value; compute_file_hash is collision free.    *)
(*  - The log file is append-only and every line carries a timestamp, so   *)
(*    its content is identified by its number of lines.                    *)
(*  - The store file is a sequence of lines, a line the sequence of the    *)
(*    fields that str.split("||") yields: <<path, digest>> is what         *)
(*    save_hashes writes, any other length makes load_hashes raise.        *)
(*    A dict keeps insertion order and no key is ever removed, so within   *)
(*    one history equal mappings serialize to equal files; lines are       *)
(*    written in the fixed order PathOrder.                                *)
(*  - git works on whole files: two sides conflict on a path when both     *)
(*    changed it since the merge base, to different contents.              *)
(*  - Faults: network unreachable, a git command failing, git add refusing *)
(*    an ignored path, a damaged store, a failing write of a conflict      *)
(*    artifact.  Other I/O (the log, hashing) does not fail.               *)
(***************************************************************************)
EXTENDS Integers, Sequences, FiniteSets, TLC

\* ------------------------------------------------------------------ bounds
MaxRuns == 2
MaxContent == 2

\* --------------------------------------------------------------- settings
BRANCH == "master"
LOCAL_PREFIX == "LOCAL_"
REMOTE_PREFIX == "REMOTE_"
LOG_FILE == "sync_log.txt"
HASH_FILE == ".file_hashes.txt"

\* The files the user and the other machines edit.
UserFiles == {"a.txt"}

LocalName(p) == LOCAL_PREFIX \o p
RemoteName(p) == REMOTE_PREFIX \o p

Paths == UserFiles \cup {LOG_FILE, HASH_FILE}
           \cup {LocalName(p) : p \in UserFiles} \cup {RemoteName(p) : p \in UserFiles}

PathOrder == <<"a.txt", "LOCAL_a.txt", "REMOTE_a.txt", HASH_FILE, LOG_FILE>>

Procs == {1, 2}

\* Contents of a user file: 1..MaxContent as written on this machine,
\* RemoteContent as pushed by another machine, Markers when git left
\* conflict markers in it, Empty for a file nothing was written to.
Contents == 1..MaxContent
RemoteContent == MaxContent + 1
Markers == 0
Empty == -1

\* ----------------------------------------------------------- finite maps
Has(t, p) == p \in DOMAIN t
Put(t, p, v) == (p :> v) @@ t
Remove(t, p) == [q \in DOMAIN t \ {p} |-> t[q]]
Same(t, u, p) == /\ Has(t, p) <=> Has(u, p)
                 /\ Has(t, p) => t[p] = u[p]
EmptyMap == <<>>
\* t with the paths of S taken from u (absent in u: absent in the result).
Take(t, u, S) == [q \in (DOMAIN t \ S) \cup (S \cap DOMAIN u) |->
                    IF q \in S THEN u[q] ELSE t[q]]

VARIABLES disk, branch, origin, base, index, gitOp, unpushed, ignored,
          procs, run, runs, extChange

vars == <<disk, branch, origin, base, index, gitOp, unpushed, ignored,
          procs, run, runs, extChange>>

\* ------------------------------------------------------- pure functions

\* log(message): one more line at the end of LOG_FILE (created when absent).
log(d) == Put(d, LOG_FILE, IF Has(d, LOG_FILE) THEN d[LOG_FILE] + 1 ELSE 1)

\* A scan that leaves the conflict copies out.
get_all_files_but_copies(d) ==
  DOMAIN d \ ({LocalName(p) : p \in UserFiles} \cup {RemoteName(p) : p \in UserFiles})

\* get_all_files(LOCAL_REPO): every file under the root, the log and the
\* store included.
get_all_files(d) == DOMAIN d

\* compute_file_hash(path): sha256 of the bytes, collision free.
compute_file_hash(d, p) == [sha256 |-> d[p]]

\* A loader that takes the first two fields of a longer line.
UnpackableLoose(line) == Len(line) >= 2

\* line.strip().split("||") unpacks into (path, h) only for two fields.
Unpackable(line) == Len(line) = 2

\* load_hashes raises ValueError on the first line that does not unpack.
LoadRaises(d) == /\ Has(d, HASH_FILE)
                 /\ \E i \in DOMAIN d[HASH_FILE] : ~Unpackable(d[HASH_FILE][i])

\* The dict built from lines that all unpack: a later line wins.
ParseLines(lines) ==
  [p \in {lines[i][1] : i \in DOMAIN lines} |->
     lines[CHOOSE i \in DOMAIN lines :
             /\ lines[i][1] = p
             /\ \A j \in DOMAIN lines : lines[j][1] = p => j <= i][2]]

load_hashes(d) == IF ~Has(d, HASH_FILE) THEN EmptyMap ELSE ParseLines(d[HASH_FILE])

\* The lines save_hashes writes, one f"{path}||{h}\n" per item.
RECURSIVE LinesFrom(_, _)
LinesFrom(hashes, i) ==
  IF i > Len(PathOrder) THEN <<>>
  ELSE (IF PathOrder[i] \in DOMAIN hashes
           THEN <<<<PathOrder[i], hashes[PathOrder[i]]>>>>
           ELSE <<>>) \o LinesFrom(hashes, i + 1)

StoreLines(hashes) == LinesFrom(hashes, 1)

\* What a reader finds in the store file when a buffer flush ended after k
\* whole lines; part says where in line k+1 the flush ended.
PartialLine(line, part) ==
  IF part = "path" THEN <<line[1]>>
  ELSE <<line[1], [sha256_prefix |-> line[2].sha256]>>

Flushed(lines, k, part) ==
  SubSeq(lines, 1, k) \o
    (IF part = "none" \/ k >= Len(lines) THEN <<>>
     ELSE <<PartialLine(lines[k + 1], part)>>)

\* A test that only looks for paths the store does not know.
IsDirtyNewOnly(previous_hashes, rel_path, file_hash) ==
  ~Has(previous_hashes, rel_path)

\* Line 149: rel_path not in previous_hashes or previous_hashes[rel_path] != file_hash
IsDirty(previous_hashes, rel_path, file_hash) ==
  \/ ~Has(previous_hashes, rel_path)
  \/ previous_hashes[rel_path] # file_hash

\* ------------------------------------------------------------ git backend

\* The trees of the other machines' pushes that a fetch may bring: nothing
\* new, or a user file with a content of their own or put back to the
\* content of the first commit (a revert).
Fetchable ==
  {origin} \cup {Put(origin, p, c) : p \in UserFiles, c \in {1, RemoteContent}}

LocalChanged(p) == ~Same(branch, base, p)
Behind(o) == {p \in UserFiles : ~Same(o, base, p)}
Incoming(o) == {p \in Behind(o) : ~LocalChanged(p)}
\* Both sides changed p since the merge base, to different contents.
ConflictSet(o) == {p \in Behind(o) : LocalChanged(p) /\ ~Same(branch, o, p)}

\* git merge refuses to overwrite uncommitted changes or to start with a
\* staged change or during a merge or rebase.
MergeBlocked(o) ==
  \/ gitOp # "none"
  \/ Behind(o) # {} /\ index # EmptyMap
  \/ \E p \in Behind(o) : ~Same(disk, branch, p)

\* git pull --rebase refuses any unstaged or staged change of a tracked file.
RebaseBlocked ==
  \/ gitOp # "none"
  \/ index # EmptyMap
  \/ \E p \in DOMAIN branch : ~Same(disk, branch, p)

\* The working tree a stopped merge or rebase leaves: incoming paths
\* updated, conflicted paths with markers.
Stopped(d, o) ==
  [q \in DOMAIN Take(d, o, Incoming(o)) \cup ConflictSet(o) |->
     IF q \in ConflictSet(o) THEN Markers ELSE Take(d, o, Incoming(o))[q]]

\* git diff --name-only --diff-filter=U
Unmerged == IF gitOp = "none" THEN {} ELSE ConflictSet(origin) \ DOMAIN index

\* The tree HEAD names: the local branch, or during a rebase the detached
\* head on top of origin/BRANCH.
HeadTree == IF gitOp = "rebase" THEN Take(branch, origin, Behind(origin)) ELSE branch

\* git show <rev>:<path> into the opened file: nothing for a missing path.
ShowRevision(tree, p) == IF Has(tree, p) THEN tree[p] ELSE Empty

\* merge --abort, rebase --abort: the tracked files as before the pull.
Aborted(d) == Take(d, branch, Behind(origin))

\* save_conflict_versions(conflicted_files): per path the LOCAL_ file from
\* HEAD and the REMOTE_ file from origin/BRANCH, a log line after each.
\* Write number f raises OSError in open() (f = 0: none does); the writes
\* before it are done, the ones from it on are not.
RECURSIVE save_conflict_versions(_, _, _, _)
save_conflict_versions(d, conflicted_files, k, f) ==
  IF k > 2 * Len(conflicted_files) \/ k = f THEN d
  ELSE LET file_path == conflicted_files[(k + 1) \div 2]
           target == IF k % 2 = 1 THEN LocalName(file_path) ELSE RemoteName(file_path)
           tree == IF k % 2 = 1 THEN HeadTree ELSE origin
       IN save_conflict_versions(log(Put(d, target, ShowRevision(tree, file_path))),
                                 conflicted_files, k + 1, f)

\* .stdout.splitlines() of the diff: the unmerged paths, in git's order.
ConflictList == SelectSeq(PathOrder, LAMBDA q : q \in Unmerged)

\* --------------------------------------------------------------- sync_repo

\* What a recovery worked on: the conflicted paths and the two branches as
\* they were when the pull stopped.
NoConflict == [kind |-> "none", paths |-> <<>>, local |-> EmptyMap, remote |-> EmptyMap]

\* The locals of sync_repo (pc, previous_hashes, new_hashes, changed,
\* all_files, the lines being written) and the record of the run: the
\* probes' answers, the commands and log messages in order (trace), the
\* files as they were at the start, the content hashed per path (scanned),
\* the paths git add was called on (tried) and accepted (added), whether
\* unpushed commits existed at the start (pending), the lines of the store
\* when save_hashes opened it (before), and the saves of other processes
\* that were between open and close when this run loaded (during).
NoRun == [pc |-> "idle", previous_hashes |-> EmptyMap, new_hashes |-> EmptyMap,
          changed |-> FALSE, all_files |-> {}, out |-> <<>>, wrote |-> 0,
          net1 |-> "?", net2 |-> "?", trace |-> <<>>, start |-> EmptyMap,
          scanned |-> EmptyMap, tried |-> {}, added |-> {},
          conflict |-> NoConflict, pending |-> FALSE,
          before |-> <<>>, during |-> {}]

Ended(self) == run[self].pc \in {"idle", "done", "crashed"}

At(self, l) == self \in procs /\ run[self].pc = l

Upd(self, r) == run' = [run EXCEPT ![self] = r]

Did(r, events) == [r EXCEPT !.trace = @ \o events]

\* What .gitignore may name: nothing, or the two files the program writes.
IgnoreConfigs == {{}, {LOG_FILE, HASH_FILE}}

\* What a run keeps of the run before it.
Summary(r) == [pc |-> r.pc, net1 |-> r.net1, net2 |-> r.net2,
               changed |-> r.changed, added |-> r.added]

Init ==
  /\ disk = [p \in UserFiles |-> 1]
  /\ branch = [p \in UserFiles |-> 1]
  /\ origin = [p \in UserFiles |-> 1]
  /\ base = [p \in UserFiles |-> 1]
  /\ index = EmptyMap
  /\ gitOp = "none"
  /\ unpushed = FALSE
  /\ ignored \in IgnoreConfigs
  /\ procs = {1}
  /\ run = [self \in Procs |-> NoRun @@ [prev |-> [quiet |-> FALSE] @@ Summary(NoRun)]]
  /\ runs = 0
  /\ extChange = FALSE

\* The saves in progress in the other processes.
Saving(self) ==
  {[old |-> run[q].before, new |-> run[q].out] :
     q \in {q \in procs \ {self} : run[q].pc = "saving"}}

\* Lines 102-110: a run starts and loads the store; a line that does not
\* unpack raises ValueError out of sync_repo.
StartRun(self) ==
  /\ self \in procs /\ Ended(self)
  /\ runs < MaxRuns
  /\ gitOp = "none"
  /\ runs' = runs + 1
  /\ extChange' = FALSE
  /\ LET fresh == [NoRun EXCEPT !.start = disk, !.pending = unpushed,
                                !.during = Saving(self)] @@
                  [prev |-> [quiet |-> ~extChange] @@ Summary(run[self])]
     IN IF LoadRaises(disk)
        THEN Upd(self, [fresh EXCEPT !.pc = "crashed", !.trace = <<"load_error">>])
        ELSE Upd(self, [fresh EXCEPT !.pc = "check1",
                                     !.previous_hashes = load_hashes(disk),
                                     !.trace = <<"load">>])
  /\ UNCHANGED <<disk, branch, origin, base, index, gitOp, unpushed, ignored, procs>>

\* Lines 113, 138-139: github.com is unreachable, the pull is skipped.
IntegrateSkip(self) ==
  /\ At(self, "check1")
  /\ disk' = log(disk)
  /\ Upd(self, Did([run[self] EXCEPT !.pc = "scan", !.net1 = "down"],
                   <<"log_pull_skipped">>))
  /\ UNCHANGED <<branch, origin, base, index, gitOp, unpushed, ignored, procs,
                 runs, extChange>>

\* Lines 114-120, 134-135: git pull origin BRANCH exits 0.
PullOk(self, o) ==
  /\ At(self, "check1")
  /\ ~MergeBlocked(o) /\ ConflictSet(o) = {}
  /\ origin' = o
  /\ branch' = Take(branch, o, Incoming(o))
  /\ base' = o
  /\ disk' = log(Take(disk, o, Incoming(o)))
  /\ Upd(self, Did([run[self] EXCEPT !.pc = "scan", !.net1 = "up"],
                   <<"pull", "log_pulled">>))
  /\ UNCHANGED <<index, gitOp, unpushed, ignored, procs, runs, extChange>>

\* Lines 121-122, 132-133: the pull exits non-zero without CONFLICT in its
\* output (the fetch failed, or the merge was refused).
PullError(self, o) ==
  /\ At(self, "check1")
  /\ o = origin \/ MergeBlocked(o)
  /\ origin' = o
  /\ disk' = log(disk)
  /\ Upd(self, Did([run[self] EXCEPT !.pc = "scan", !.net1 = "up"],
                   <<"pull", "log_pull_error">>))
  /\ UNCHANGED <<branch, base, index, gitOp, unpushed, ignored, procs, runs,
                 extChange>>

\* Lines 121-123: the pull exits non-zero with CONFLICT: a merge is in
\* progress.
PullConflict(self, o) ==
  /\ At(self, "check1")
  /\ ~MergeBlocked(o) /\ ConflictSet(o) # {}
  /\ origin' = o
  /\ gitOp' = "merge"
  /\ disk' = log(Stopped(disk, o))
  /\ Upd(self, Did([run[self] EXCEPT !.pc = "pull_conflict", !.net1 = "up"],
                   <<"pull", "log_pull_conflicts">>))
  /\ UNCHANGED <<branch, base, index, unpushed, ignored, procs, runs, extChange>>

\* Lines 124-131, 136-137: list the unmerged paths, save both versions of
\* each, abort the merge.  An exception of a write is caught by
\* "except Exception": it is logged and the abort is not reached.
RecoverPull(self, f) ==
  /\ At(self, "pull_conflict")
  /\ LET conflicts == ConflictList
         d == save_conflict_versions(disk, conflicts, 1, f)
         r == [run[self] EXCEPT !.conflict = [kind |-> "merge", paths |-> conflicts,
                                              local |-> branch, remote |-> origin]]
     IN IF f = 0
        THEN /\ disk' = Aborted(d)
             /\ gitOp' = "none"
             /\ Upd(self, Did([r EXCEPT !.pc = "scan"],
                              <<"diff", "preserve", "merge_abort">>))
        ELSE /\ disk' = log(d)
             /\ gitOp' = gitOp
             /\ Upd(self, Did([r EXCEPT !.pc = "scan"],
                              <<"diff", "preserve_raised", "log_pull_error">>))
  /\ UNCHANGED <<branch, origin, base, index, unpushed, ignored, procs, runs,
                 extChange>>

\* A scan that starts from an empty dict instead of the loaded one.
ScanStartFresh(self) ==
  /\ At(self, "scan")
  /\ Upd(self, [run[self] EXCEPT !.pc = "scanning",
                                 !.all_files = get_all_files(disk),
                                 !.new_hashes = EmptyMap])
  /\ UNCHANGED <<disk, branch, origin, base, index, gitOp, unpushed, ignored,
                 procs, runs, extChange>>

\* Lines 142-143: the scan lists the files once and copies the loaded dict.
ScanStart(self) ==
  /\ At(self, "scan")
  /\ Upd(self, [run[self] EXCEPT !.pc = "scanning",
                                 !.all_files = get_all_files(disk),
                                 !.new_hashes = run[self].previous_hashes])
  /\ UNCHANGED <<disk, branch, origin, base, index, gitOp, unpushed, ignored,
                 procs, runs, extChange>>

\* git add refuses a path that .gitignore names (run_git_command raises).
AddSucceeds(rel_path) == rel_path \notin ignored

\* The index after git add rel_path.
Stage(rel_path) ==
  IF gitOp = "none" /\ Same(disk, branch, rel_path)
  THEN Remove(index, rel_path)
  ELSE Put(index, rel_path, disk[rel_path])

\* A scan that gives up at the first path git add refuses.
ScanFileAborts(self, rel_path) ==
  /\ At(self, "scanning")
  /\ rel_path \in run[self].all_files
  /\ LET r == [run[self] EXCEPT !.all_files = @ \ {rel_path}]
     IN IF ~Has(disk, rel_path)
        THEN /\ Upd(self, r)
             /\ UNCHANGED <<disk, index>>
        ELSE LET file_hash == compute_file_hash(disk, rel_path)
                 seen == [r EXCEPT !.scanned = Put(@, rel_path, disk[rel_path])]
             IN IF ~IsDirty(r.previous_hashes, rel_path, file_hash)
                THEN /\ Upd(self, seen)
                     /\ UNCHANGED <<disk, index>>
                ELSE IF AddSucceeds(rel_path)
                THEN /\ index' = Stage(rel_path)
                     /\ disk' = log(disk)
                     /\ Upd(self, Did([seen EXCEPT
                                         !.new_hashes = Put(@, rel_path, file_hash),
                                         !.changed = TRUE,
                                         !.tried = @ \cup {rel_path},
                                         !.added = @ \cup {rel_path}],
                                      <<"add">>))
                ELSE /\ disk' = log(disk)
                     /\ index' = index
                     /\ Upd(self, Did([seen EXCEPT !.tried = @ \cup {rel_path},
                                                   !.all_files = {}],
                                      <<"add_raised">>))
  /\ UNCHANGED <<branch, origin, base, gitOp, unpushed, ignored, procs, runs,
                 extChange>>

\* Lines 144-156: one iteration of the loop over all_files, in the order
\* os.walk happens to give.
ScanFile(self, rel_path) ==
  /\ At(self, "scanning")
  /\ rel_path \in run[self].all_files
  /\ LET r == [run[self] EXCEPT !.all_files = @ \ {rel_path}]
     IN IF ~Has(disk, rel_path)
        THEN /\ Upd(self, r)
             /\ UNCHANGED <<disk, index>>
        ELSE LET file_hash == compute_file_hash(disk, rel_path)
                 seen == [r EXCEPT !.scanned = Put(@, rel_path, disk[rel_path])]
             IN IF ~IsDirty(r.previous_hashes, rel_path, file_hash)
                THEN /\ Upd(self, seen)
                     /\ UNCHANGED <<disk, index>>
                ELSE IF AddSucceeds(rel_path)
                THEN /\ index' = Stage(rel_path)
                     /\ disk' = log(disk)
                     /\ Upd(self, Did([seen EXCEPT
                                         !.new_hashes = Put(@, rel_path, file_hash),
                                         !.changed = TRUE,
                                         !.tried = @ \cup {rel_path},
                                         !.added = @ \cup {rel_path}],
                                      <<"add">>))
                ELSE /\ disk' = log(disk)
                     /\ index' = index
                     /\ Upd(self, Did([seen EXCEPT !.tried = @ \cup {rel_path}],
                                      <<"add_raised">>))
  /\ UNCHANGED <<branch, origin, base, gitOp, unpushed, ignored, procs, runs,
                 extChange>>

Scanned(self) == At(self, "scanning") /\ run[self].all_files = {}

\* git commit has something to commit; during a merge that was not aborted
\* it concludes the merge once no path is unmerged.
CanCommit == /\ index # EmptyMap
             /\ gitOp = "none" \/ (gitOp = "merge" /\ Unmerged = {})

\* Lines 159-162: git commit exits 0.
CommitOk(self) ==
  /\ Scanned(self) /\ run[self].changed
  /\ CanCommit
  /\ branch' = index @@ (IF gitOp = "merge"
                            THEN Take(branch, origin, Incoming(origin))
                            ELSE branch)
  /\ base' = IF gitOp = "merge" THEN origin ELSE base
  /\ gitOp' = "none"
  /\ index' = EmptyMap
  /\ unpushed' = TRUE
  /\ disk' = log(disk)
  /\ Upd(self, Did([run[self] EXCEPT !.pc = "check2"],
                   <<"commit", "log_committed">>))
  /\ UNCHANGED <<origin, ignored, procs, runs, extChange>>

\* Lines 159-162: git commit exits non-zero (nothing to commit, unmerged
\* paths); check=False returns normally.
CommitFail(self) ==
  /\ Scanned(self) /\ run[self].changed
  /\ ~CanCommit
  /\ disk' = log(disk)
  /\ Upd(self, Did([run[self] EXCEPT !.pc = "check2"],
                   <<"commit_failed", "log_committed">>))
  /\ UNCHANGED <<branch, origin, base, index, gitOp, unpushed, ignored, procs,
                 runs, extChange>>

\* A run that persists the store although nothing was staged.
NoChangesPersists(self) ==
  /\ At(self, "scanning") /\ run[self].all_files = {} /\ ~run[self].changed
  /\ disk' = log(disk)
  /\ Upd(self, Did([run[self] EXCEPT !.pc = "save"], <<"log_no_changes">>))
  /\ UNCHANGED <<branch, origin, base, index, gitOp, unpushed, ignored, procs,
                 runs, extChange>>

\* Lines 197-198: nothing was staged.
NoChanges(self) ==
  /\ Scanned(self) /\ ~run[self].changed
  /\ disk' = log(disk)
  /\ Upd(self, Did([run[self] EXCEPT !.pc = "done"], <<"log_no_changes">>))
  /\ UNCHANGED <<branch, origin, base, index, gitOp, unpushed, ignored, procs,
                 runs, extChange>>

\* A run that ends without persisting when the second probe fails.
PublishSkipNoSave(self) ==
  /\ At(self, "check2")
  /\ disk' = log(disk)
  /\ Upd(self, Did([run[self] EXCEPT !.pc = "done", !.net2 = "down"],
                   <<"log_push_skipped">>))
  /\ UNCHANGED <<branch, origin, base, index, gitOp, unpushed, ignored, procs,
                 runs, extChange>>

\* Lines 167, 193-194: unreachable at the second check, the push is skipped.
PublishSkip(self) ==
  /\ At(self, "check2")
  /\ disk' = log(disk)
  /\ Upd(self, Did([run[self] EXCEPT !.pc = "save", !.net2 = "down"],
                   <<"log_push_skipped">>))
  /\ UNCHANGED <<branch, origin, base, index, gitOp, unpushed, ignored, procs,
                 runs, extChange>>

\* Lines 168-175, 188: git pull --rebase exits 0.
RebaseOk(self, o) ==
  /\ At(self, "check2")
  /\ ~RebaseBlocked /\ ConflictSet(o) = {}
  /\ origin' = o
  /\ branch' = Take(branch, o, Incoming(o))
  /\ base' = o
  /\ disk' = Take(disk, o, Incoming(o))
  /\ Upd(self, Did([run[self] EXCEPT !.pc = "push", !.net2 = "up"], <<"rebase">>))
  /\ UNCHANGED <<index, gitOp, unpushed, ignored, procs, runs, extChange>>

\* Lines 175-176, 186-187: the rebase exits non-zero without CONFLICT.
RebaseError(self, o) ==
  /\ At(self, "check2")
  /\ o = origin \/ RebaseBlocked
  /\ origin' = o
  /\ disk' = log(disk)
  /\ Upd(self, Did([run[self] EXCEPT !.pc = "save", !.net2 = "up"],
                   <<"rebase", "log_rebase_error">>))
  /\ UNCHANGED <<branch, base, index, gitOp, unpushed, ignored, procs, runs,
                 extChange>>

\* Lines 175-177: the rebase stops on a conflict.
RebaseConflict(self, o) ==
  /\ At(self, "check2")
  /\ ~RebaseBlocked /\ ConflictSet(o) # {}
  /\ origin' = o
  /\ gitOp' = "rebase"
  /\ disk' = log(Stopped(disk, o))
  /\ Upd(self, Did([run[self] EXCEPT !.pc = "rebase_conflict", !.net2 = "up"],
                   <<"rebase", "log_rebase_conflicts">>))
  /\ UNCHANGED <<branch, base, index, unpushed, ignored, procs, runs, extChange>>

\* Lines 178-185, 191: list, save both versions, abort the rebase.  Only
\* RuntimeError is caught here: an OSError of a write leaves sync_repo.
RecoverRebase(self, f) ==
  /\ At(self, "rebase_conflict")
  /\ LET conflicts == ConflictList
         d == save_conflict_versions(disk, conflicts, 1, f)
         r == [run[self] EXCEPT !.conflict = [kind |-> "rebase", paths |-> conflicts,
                                              local |-> branch, remote |-> origin]]
     IN IF f = 0
        THEN /\ disk' = Aborted(d)
             /\ gitOp' = "none"
             /\ Upd(self, Did([r EXCEPT !.pc = "save"],
                              <<"diff", "preserve", "rebase_abort">>))
        ELSE /\ disk' = d
             /\ gitOp' = gitOp
             /\ Upd(self, Did([r EXCEPT !.pc = "crashed"],
                              <<"diff", "preserve_raised">>))
  /\ UNCHANGED <<branch, origin, base, index, unpushed, ignored, procs, runs,
                 extChange>>

\* Lines 189-190: git push exits 0.
PushOk(self) ==
  /\ At(self, "push")
  /\ origin' = [p \in DOMAIN branch \cap UserFiles |-> branch[p]]
  /\ base' = origin'
  /\ unpushed' = FALSE
  /\ disk' = log(disk)
  /\ Upd(self, Did([run[self] EXCEPT !.pc = "save"], <<"push", "log_pushed">>))
  /\ UNCHANGED <<branch, index, gitOp, ignored, procs, runs, extChange>>

\* A run that goes back to the second probe when the push raised.
PushFailRetries(self) ==
  /\ At(self, "push")
  /\ disk' = log(disk)
  /\ Upd(self, Did([run[self] EXCEPT !.pc = "check2"], <<"push_raised", "log_push_error">>))
  /\ UNCHANGED <<branch, origin, base, index, gitOp, unpushed, ignored, procs,
                 runs, extChange>>

\* Lines 189, 191-192: git push exits non-zero, run_git_command raises
\* RuntimeError, which is logged.
PushFail(self) ==
  /\ At(self, "push")
  /\ disk' = log(disk)
  /\ Upd(self, Did([run[self] EXCEPT !.pc = "save"], <<"push_raised", "log_push_error">>))
  /\ UNCHANGED <<branch, origin, base, index, gitOp, unpushed, ignored, procs,
                 runs, extChange>>

\* Line 79: open(HASH_FILE, "w") truncates the store.  Two saves writing
\* the file at once are left out: one save is open at a time.
SaveOpen(self) ==
  /\ At(self, "save")
  /\ \A q \in procs \ {self} : run[q].pc # "saving"
  /\ disk' = Put(disk, HASH_FILE, <<>>)
  /\ Upd(self, Did([run[self] EXCEPT !.pc = "saving",
                                     !.before = IF Has(disk, HASH_FILE)
                                                THEN disk[HASH_FILE] ELSE <<>>,
                                     !.out = StoreLines(run[self].new_hashes),
                                     !.wrote = 0],
                   <<"save">>))
  /\ UNCHANGED <<branch, origin, base, index, gitOp, unpushed, ignored, procs,
                 runs, extChange>>

\* Lines 80-81: the buffered writer flushes when its buffer is full, which
\* may be anywhere in the text written so far.
SaveFlush(self, k, part) ==
  /\ At(self, "saving")
  /\ k < Len(run[self].out)
  /\ LET rank == 3 * k + (IF part = "none" THEN 0 ELSE IF part = "path" THEN 1 ELSE 2)
     IN /\ rank > run[self].wrote
        /\ Upd(self, [run[self] EXCEPT !.wrote = rank])
  /\ disk' = Put(disk, HASH_FILE, Flushed(run[self].out, k, part))
  /\ UNCHANGED <<branch, origin, base, index, gitOp, unpushed, ignored, procs,
                 runs, extChange>>

\* A save that keeps the entries the file held when it was opened.
SaveCloseKeeping(self) ==
  /\ At(self, "saving")
  /\ disk' = Put(disk, HASH_FILE,
                 StoreLines(ParseLines(run[self].before) @@ run[self].new_hashes))
  /\ Upd(self, [run[self] EXCEPT !.pc = "done"])
  /\ UNCHANGED <<branch, origin, base, index, gitOp, unpushed, ignored, procs,
                 runs, extChange>>

\* Line 79: leaving the with block flushes the rest and closes the file.
SaveClose(self) ==
  /\ At(self, "saving")
  /\ disk' = Put(disk, HASH_FILE, run[self].out)
  /\ Upd(self, [run[self] EXCEPT !.pc = "done"])
  /\ UNCHANGED <<branch, origin, base, index, gitOp, unpushed, ignored, procs,
                 runs, extChange>>

\* ------------------------------------------------------------ environment

Quiet == runs < MaxRuns /\ \A self \in procs : Ended(self)

\* Between two runs somebody writes a user file.
ExternalEdit(p, c) ==
  /\ Quiet
  /\ ~(Has(disk, p) /\ disk[p] = c)
  /\ disk' = Put(disk, p, c)
  /\ extChange' = TRUE
  /\ UNCHANGED <<branch, origin, base, index, gitOp, unpushed, ignored, procs,
                 run, runs>>

\* Between two runs somebody deletes a user file.
ExternalDelete(p) ==
  /\ Quiet
  /\ Has(disk, p)
  /\ disk' = Remove(disk, p)
  /\ extChange' = TRUE
  /\ UNCHANGED <<branch, origin, base, index, gitOp, unpushed, ignored, procs,
                 run, runs>>

\* Lines that do not unpack: a blank line, no delimiter, a path with the
\* delimiter in it.
BadLines == {<<"">>, <<"no delimiter">>, <<"a", "b.txt", "digest">>}

\* Between two runs the store file is damaged.
DamageStore(bad) ==
  /\ Quiet /\ ~extChange
  /\ Has(disk, HASH_FILE) /\ ~LoadRaises(disk)
  /\ disk' = Put(disk, HASH_FILE, Append(disk[HASH_FILE], bad))
  /\ extChange' = TRUE
  /\ UNCHANGED <<branch, origin, base, index, gitOp, unpushed, ignored, procs,
                 run, runs>>

\* ---------------------------------------------------------- specification

Parts == {"none", "path", "digest"}

Next ==
  \/ \E self \in Procs : StartRun(self)
  \/ \E self \in Procs : IntegrateSkip(self)
  \/ \E self \in Procs, o \in Fetchable : PullOk(self, o)
  \/ \E self \in Procs, o \in Fetchable : PullError(self, o)
  \/ \E self \in Procs, o \in Fetchable : PullConflict(self, o)
  \/ \E self \in Procs, f \in 0..(2 * Len(ConflictList)) : RecoverPull(self, f)
  \/ \E self \in Procs : ScanStart(self)
  \/ \E self \in Procs, rel_path \in Paths : ScanFile(self, rel_path)
  \/ \E self \in Procs : CommitOk(self)
  \/ \E self \in Procs : CommitFail(self)
  \/ \E self \in Procs : NoChanges(self)
  \/ \E self \in Procs : PublishSkip(self)
  \/ \E self \in Procs, o \in Fetchable : RebaseOk(self, o)
  \/ \E self \in Procs, o \in Fetchable : RebaseError(self, o)
  \/ \E self \in Procs, o \in Fetchable : RebaseConflict(self, o)
  \/ \E self \in Procs, f \in 0..(2 * Len(ConflictList)) : RecoverRebase(self, f)
  \/ \E self \in Procs : PushOk(self)
  \/ \E self \in Procs : PushFail(self)
  \/ \E self \in Procs : SaveOpen(self)
  \/ \E self \in Procs : SaveClose(self)
  \/ \E p \in UserFiles, c \in Contents : ExternalEdit(p, c)
  \/ \E p \in UserFiles : ExternalDelete(p)
  \/ \E bad \in BadLines : DamageStore(bad)

Spec == Init /\ [][Next]_vars

\* The steps of sync_repo in one process after its start.
RunStep(self) ==
  \/ IntegrateSkip(self)
  \/ \E o \in Fetchable : PullOk(self, o) \/ PullError(self, o) \/ PullConflict(self, o)
  \/ \E f \in 0..(2 * Len(ConflictList)) : RecoverPull(self, f) \/ RecoverRebase(self, f)
  \/ ScanStart(self)
  \/ \E rel_path \in Paths : ScanFile(self, rel_path)
  \/ CommitOk(self) \/ CommitFail(self) \/ NoChanges(self)
  \/ PublishSkip(self)
  \/ \E o \in Fetchable : RebaseOk(self, o) \/ RebaseError(self, o) \/ RebaseConflict(self, o)
  \/ PushOk(self) \/ PushFail(self)
  \/ SaveOpen(self) \/ SaveClose(self)

\* Every probe, git command and file operation returns: a started run keeps
\* taking steps.
SpecLive == Spec /\ \A self \in Procs : WF_vars(RunStep(self))

\* Two processes (the scheduled task and a run started by hand) over the
\* same root, with no network.  They start from the state the first run of
\* Spec leaves when .gitignore names the log and the store: nothing to
\* commit, five log lines, the store holding the digest of each user file.
AfterFirstRun ==
  /\ disk = Put(log(log(log(log(log([p \in UserFiles |-> 1]))))), HASH_FILE,
               StoreLines([p \in UserFiles |-> [sha256 |-> 1]]))
  /\ branch = [p \in UserFiles |-> 1]
  /\ origin = [p \in UserFiles |-> 1]
  /\ base = [p \in UserFiles |-> 1]
  /\ index = EmptyMap
  /\ gitOp = "none"
  /\ unpushed = FALSE
  /\ ignored = {LOG_FILE, HASH_FILE}

InitConc ==
  /\ AfterFirstRun
  /\ procs = Procs
  /\ run = [self \in Procs |-> NoRun @@ [prev |-> [quiet |-> FALSE] @@ Summary(NoRun)]]
  /\ runs = 0
  /\ extChange = FALSE

NextConc ==
  \/ \E self \in Procs : StartRun(self)
  \/ \E self \in Procs : IntegrateSkip(self)
  \/ \E self \in Procs : ScanStart(self)
  \/ \E self \in Procs, rel_path \in Paths : ScanFile(self, rel_path)
  \/ \E self \in Procs : CommitOk(self)
  \/ \E self \in Procs : CommitFail(self)
  \/ \E self \in Procs : NoChanges(self)
  \/ \E self \in Procs : PublishSkip(self)
  \/ \E self \in Procs : SaveOpen(self)
  \/ \E self \in Procs, k \in 0..Len(PathOrder), part \in Parts : SaveFlush(self, k, part)
  \/ \E self \in Procs : SaveClose(self)
  \/ \E p \in UserFiles, c \in Contents : ExternalEdit(p, c)

SpecConc == InitConc /\ [][NextConc]_vars

\* Somebody writes a user file while runs are in progress.
EditAnytime(p, c) ==
  /\ runs < MaxRuns
  /\ ~extChange
  /\ ~(Has(disk, p) /\ disk[p] = c)
  /\ disk' = Put(disk, p, c)
  /\ extChange' = TRUE
  /\ UNCHANGED <<branch, origin, base, index, gitOp, unpushed, ignored, procs,
                 run, runs>>

\* Two processes over a fresh clone, with no network, while the user goes
\* on working in the root.
InitRace ==
  /\ disk = [p \in UserFiles |-> 1]
  /\ branch = [p \in UserFiles |-> 1]
  /\ origin = [p \in UserFiles |-> 1]
  /\ base = [p \in UserFiles |-> 1]
  /\ index = EmptyMap
  /\ gitOp = "none"
  /\ unpushed = FALSE
  /\ ignored \in IgnoreConfigs
  /\ procs = Procs
  /\ run = [self \in Procs |-> NoRun @@ [prev |-> [quiet |-> FALSE] @@ Summary(NoRun)]]
  /\ runs = 0
  /\ extChange = FALSE

NextRace ==
  \/ \E self \in Procs : StartRun(self)
  \/ \E self \in Procs : IntegrateSkip(self)
  \/ \E self \in Procs : ScanStart(self)
  \/ \E self \in Procs, rel_path \in Paths : ScanFile(self, rel_path)
  \/ \E self \in Procs : CommitOk(self)
  \/ \E self \in Procs : CommitFail(self)
  \/ \E self \in Procs : NoChanges(self)
  \/ \E self \in Procs : PublishSkip(self)
  \/ \E self \in Procs : SaveOpen(self)
  \/ \E self \in Procs : SaveClose(self)
  \/ \E p \in UserFiles, c \in Contents : EditAnytime(p, c)

SpecRace == InitRace /\ [][NextRace]_vars

\* ------------------------------------------------------------------ claims

InTrace(r, e) == \E i \in DOMAIN r.trace : r.trace[i] = e

\* Both probes of the run failed (the second is not made when nothing was
\* staged).
Offline(r) == r.net1 = "down" /\ r.net2 # "up"

\* The digest stored for f differs from the digest of content c, or none is
\* stored.
Differs(hashes, f, c) == ~Has(hashes, f) \/ hashes[f] # [sha256 |-> c]

\* C1 (as claimed): a run that follows an offline run with no external
\* change in between, and is offline itself, ends with changed = FALSE and
\* the store file as it found it.
C1_Idempotent ==
  \A self \in procs :
    LET r == run[self] IN
      (r.pc = "done" /\ r.prev.pc = "done" /\ r.prev.quiet
         /\ Offline(r.prev) /\ Offline(r))
        => (~r.changed /\ Same(disk, r.start, HASH_FILE))

\* C2 (as claimed): once the scan is over, a file that was there at the start
\* of the run is staged iff its digest at the start differs from the stored
\* one or none is stored.
C2_DetectionAtStart ==
  \A self \in procs :
    LET r == run[self] IN
      (r.pc \in {"check2", "push", "save", "saving", "done"})
        => \A f \in DOMAIN r.start :
             (f \in r.added) <=> Differs(r.previous_hashes, f, r.start[f])

\* C2 (amended): git add is called on a scanned file iff the digest computed
\* in the scan differs from the loaded one or none was loaded; the file is
\* staged, and its new digest recorded, iff moreover git add accepts it.
C2_DetectionAtScan ==
  \A self \in procs :
    LET r == run[self] IN
      \A f \in DOMAIN r.scanned :
        /\ (f \in r.tried) <=> Differs(r.previous_hashes, f, r.scanned[f])
        /\ (f \in r.added) <=> (f \in r.tried /\ f \notin ignored)
        /\ (f \in r.added) => ~Differs(r.new_hashes, f, r.scanned[f])
        /\ (f \notin r.added) => Same(r.new_hashes, r.previous_hashes, f)

\* C2 witness: a file whose digest at the start of the run equalled the
\* stored one was changed by the pull and staged.
C2_Witness ==
  \E self \in procs :
    LET r == run[self] IN
      /\ r.pc = "done"
      /\ \E f \in DOMAIN r.start \cap r.added :
           /\ ~Differs(r.previous_hashes, f, r.start[f])
           /\ r.scanned[f] # r.start[f]

\* C3 (as claimed): right after a recovery, every path of the conflict set
\* has its LOCAL_ file with the content of the local branch and its REMOTE_
\* file with the content of the remote branch, as they were when the pull
\* stopped, and no merge or rebase is in progress.
C3_ConflictPreserved ==
  \A self \in procs :
    LET r == run[self] IN
      (\/ r.conflict.kind = "merge" /\ r.pc = "scan"
       \/ r.conflict.kind = "rebase" /\ r.pc \in {"save", "crashed"})
        => /\ gitOp = "none"
           /\ \A i \in DOMAIN r.conflict.paths :
                LET p == r.conflict.paths[i] IN
                  /\ Has(disk, LocalName(p)) /\ Has(disk, RemoteName(p))
                  /\ disk[LocalName(p)] = r.conflict.local[p]
                  /\ disk[RemoteName(p)] = r.conflict.remote[p]

\* C4 (as claimed): a run that staged something and ended has executed
\* save_hashes, and the run after it (with no external change in between)
\* finds, for every file staged in this run, the stored digest equal to the
\* file's.
C4_PersistAlways ==
  \A self \in procs :
    LET r == run[self] IN
      /\ (r.changed /\ r.pc \in {"done", "crashed"}) => InTrace(r, "save")
      /\ (r.pc = "check1" /\ r.prev.pc = "done" /\ r.prev.changed /\ r.prev.quiet)
           => \A f \in r.prev.added \cap DOMAIN r.start :
                ~Differs(r.previous_hashes, f, r.start[f])

GitCommands == {"commit", "commit_failed", "rebase", "push", "push_raised", "save"}

\* C5: a run in which nothing was staged runs no commit, rebase, push or
\* save_hashes, leaves the store file as it found it (it stays so until
\* somebody else touches the root), and its step after the scan only appends
\* the "no new changes" line to the log.
C5_NoChangeNoEffect ==
  /\ [](\A self \in procs :
          LET r == run[self] IN
            (r.pc = "done" /\ ~r.changed)
              => /\ \A c \in GitCommands : ~InTrace(r, c)
                 /\ extChange \/ Same(disk, r.start, HASH_FILE)
                 /\ r.trace[Len(r.trace)] = "log_no_changes")
  /\ [][\A self \in procs :
          (run[self].pc = "scanning" /\ run[self].all_files = {} /\ ~run[self].changed)
            => /\ run'[self].pc = "done"
               /\ disk' = Put(disk, LOG_FILE, disk[LOG_FILE] + 1)
               /\ UNCHANGED <<branch, origin, base, index, gitOp, unpushed>>]_vars

\* C5 witness: a run over an existing store ended with nothing staged.
C5_Witness ==
  \E self \in procs :
    /\ run[self].pc = "done" /\ ~run[self].changed
    /\ Has(run[self].start, HASH_FILE)
    /\ Len(run[self].trace) > 2

\* C6 (as claimed): a run whose two probes failed ran no pull, rebase or
\* push, staged every dirty file, committed, and persisted a store that
\* holds the new digest of every staged file.
C6_OfflineStagesAll ==
  \A self \in procs :
    LET r == run[self] IN
      (r.pc = "done" /\ r.net1 = "down" /\ r.net2 = "down" /\ ~extChange)
        => /\ \A c \in {"pull", "rebase", "push", "push_raised"} : ~InTrace(r, c)
           /\ \A f \in DOMAIN r.scanned :
                Differs(r.previous_hashes, f, r.scanned[f]) => f \in r.added
           /\ InTrace(r, "commit")
           /\ InTrace(r, "save")
           /\ \A f \in r.added : ~Differs(load_hashes(disk), f, r.scanned[f])

\* C6 (amended): such a run ran no pull, rebase or push, called git add on
\* every dirty file, staged the ones git add accepted, ran git commit, and
\* persisted a store that holds the new digest of every staged file.
C6_OfflineRun ==
  \A self \in procs :
    LET r == run[self] IN
      (r.pc = "done" /\ r.net1 = "down" /\ r.net2 = "down" /\ ~extChange)
        => /\ \A c \in {"pull", "rebase", "push", "push_raised"} : ~InTrace(r, c)
           /\ \A f \in DOMAIN r.scanned :
                /\ Differs(r.previous_hashes, f, r.scanned[f]) => f \in r.tried
                /\ (f \in r.tried /\ f \notin ignored) => f \in r.added
           /\ DOMAIN r.start \subseteq DOMAIN r.scanned
           /\ InTrace(r, "commit") \/ InTrace(r, "commit_failed")
           /\ InTrace(r, "save")
           /\ ~LoadRaises(disk)
           /\ \A f \in r.added : ~Differs(load_hashes(disk), f, r.scanned[f])

\* C6 witness: an offline run staged a modified user file and saved.
C6_Witness ==
  \E self \in procs :
    LET r == run[self] IN
      /\ r.pc = "done" /\ r.net1 = "down" /\ r.net2 = "down" /\ ~extChange
      /\ \E f \in UserFiles \cap r.added : Has(r.previous_hashes, f)

\* C7: when a line of the store at the start of a run does not unpack into
\* two fields, the run has stopped in load_hashes: it ran nothing else and
\* the store is as it was; and a run that loaded has an entry for the path
\* of every line.
C7_CorruptStoreFatal ==
  \A self \in procs :
    LET r == run[self] IN
      (r.pc # "idle" /\ Has(r.start, HASH_FILE))
        => IF \E i \in DOMAIN r.start[HASH_FILE] : Len(r.start[HASH_FILE][i]) # 2
           THEN /\ r.pc = "crashed"
                /\ r.trace = <<"load_error">>
                /\ Same(disk, r.start, HASH_FILE)
                /\ ~r.changed /\ r.added = {}
           ELSE \A i \in DOMAIN r.start[HASH_FILE] :
                  Has(r.previous_hashes, r.start[HASH_FILE][i][1])

\* C7 witness: a run stopped on a damaged store.
C7_Witness ==
  \E self \in procs :
    /\ run[self].pc = "crashed"
    /\ run[self].trace = <<"load_error">>
    /\ LoadRaises(disk)

\* C8 (as claimed): a run that starts with committed but unpushed changes
\* and finds the network reachable attempts the rebase.
C8_DeferredPublish ==
  \A self \in procs :
    LET r == run[self] IN
      (r.pc = "done" /\ r.pending /\ r.net1 = "up" /\ r.net2 # "down")
        => InTrace(r, "rebase")

\* C9 (as claimed): after a run that committed and saved, the store maps
\* exactly the files on disk, each to the digest of its content.
C9_StoreExact ==
  \A self \in procs :
    LET r == run[self] IN
      (r.pc = "done" /\ InTrace(r, "commit") /\ InTrace(r, "save"))
        => /\ ~LoadRaises(disk)
           /\ DOMAIN load_hashes(disk) = DOMAIN disk
           /\ \A f \in DOMAIN disk : ~Differs(load_hashes(disk), f, disk[f])

\* C10 (as claimed): a load made while another process is between the open
\* and the close of save_hashes does not fail and returns the complete
\* mapping of before that save or the complete mapping the save writes.
C10_AtomicSave ==
  \A self \in procs :
    LET r == run[self] IN
      (r.pc # "idle" /\ r.during # {})
        => /\ r.trace # <<"load_error">>
           /\ \E s \in r.during :
                \/ r.previous_hashes = ParseLines(s.old)
                \/ r.previous_hashes = ParseLines(s.new)

\* C11: at the end of the scan every file on disk was hashed and git add
\* was called on every dirty one, whether or not an earlier add was refused;
\* new_hashes holds the scan's digest for exactly the paths git add accepted
\* and the loaded entry (or none) for the others; changed is true iff some
\* path was accepted; and a run that started from an empty store, staged a
\* file and saved has persisted that file's digest.
C11_StagingIsolation ==
  \A self \in procs :
    LET r == run[self] IN
      /\ (r.pc = "scanning" /\ r.all_files = {})
           => /\ DOMAIN r.scanned = DOMAIN disk
              /\ \A f \in DOMAIN r.scanned :
                   /\ Differs(r.previous_hashes, f, r.scanned[f]) <=> f \in r.tried
                   /\ f \in r.added <=> (f \in r.tried /\ f \notin ignored)
                   /\ f \in r.added => (Has(r.new_hashes, f)
                                          /\ r.new_hashes[f] = [sha256 |-> r.scanned[f]])
                   /\ f \notin r.added => Same(r.new_hashes, r.previous_hashes, f)
              /\ r.changed <=> r.added # {}
      /\ (r.pc = "done" /\ InTrace(r, "save") /\ ~extChange /\ r.previous_hashes = EmptyMap)
           => \A f \in r.added :
                /\ Has(load_hashes(disk), f)
                /\ load_hashes(disk)[f] = [sha256 |-> r.scanned[f]]

\* C11 witness: a scan ended in which git add refused one dirty path and
\* accepted another.
C11_Witness ==
  \E self \in procs :
    LET r == run[self] IN
      /\ r.pc = "scanning" /\ r.all_files = {}
      /\ r.tried \ r.added # {}
      /\ r.added # {}
      /\ InTrace(r, "add_raised")

\* Event a of the run's trace is directly followed by event b.
Then(r, a, b) ==
  \E i \in DOMAIN r.trace :
    r.trace[i] = a /\ i < Len(r.trace) /\ r.trace[i + 1] = b

Pushed(r) == InTrace(r, "push") \/ InTrace(r, "push_raised")

\* C12 (as claimed): push is invoked only when changed is true, the second
\* probe succeeded and this run's rebase exited zero; once a rebase that
\* stopped on conflicts has been handled, the run has listed the paths,
\* preserved them and aborted the rebase, and it never pushes; after a
\* rebase failure without conflict it never pushes; a run whose push raised
\* logs it and ends after save_hashes.
C12_PushGating ==
  \A self \in procs :
    LET r == run[self] IN
      /\ Pushed(r)
           => /\ r.changed /\ r.net2 = "up" /\ InTrace(r, "rebase")
              /\ ~InTrace(r, "log_rebase_error")
              /\ ~InTrace(r, "log_rebase_conflicts")
      /\ (InTrace(r, "log_rebase_conflicts") /\ r.pc # "rebase_conflict")
           => /\ Then(r, "log_rebase_conflicts", "diff")
              /\ Then(r, "diff", "preserve")
              /\ Then(r, "preserve", "rebase_abort")
              /\ ~Pushed(r)
      /\ (InTrace(r, "push_raised") /\ r.pc \in {"done", "crashed"})
           => /\ Then(r, "push_raised", "log_push_error")
              /\ r.pc = "done" /\ InTrace(r, "save")

\* C13 (as claimed): once a pull that stopped on conflicts has been
\* handled, the run has listed the paths, preserved them and aborted the
\* merge, in that order, no merge is in progress and the run is at the scan
\* or beyond; a pull that failed without conflict is only logged, with no
\* listing, preserving or abort; no run stops at INTEGRATE.
C13_IntegrateRecovery ==
  \A self \in procs :
    LET r == run[self] IN
      /\ (InTrace(r, "log_pull_conflicts") /\ r.pc # "pull_conflict")
           => /\ Then(r, "log_pull_conflicts", "diff")
              /\ Then(r, "diff", "preserve")
              /\ Then(r, "preserve", "merge_abort")
              /\ r.pc = "scan" => gitOp = "none"
      /\ Then(r, "pull", "log_pull_error")
           => \A e \in {"diff", "preserve", "preserve_raised", "merge_abort"} :
                InTrace(r, e) => InTrace(r, "rebase")
      /\ (r.pc = "crashed" /\ InTrace(r, "pull")) => InTrace(r, "rebase")

\* C14 (as claimed): save_conflict_versions does not raise; once a conflict
\* has been handled, both files of every path of the conflict set are
\* written and the matching abort was invoked, so no merge or rebase is
\* left in progress.
C14_PreserverIndependent ==
  \A self \in procs :
    LET r == run[self] IN
      /\ ~InTrace(r, "preserve_raised")
      /\ (\/ r.conflict.kind = "merge" /\ r.pc = "scan"
          \/ r.conflict.kind = "rebase" /\ r.pc \in {"save", "crashed"})
           => /\ \A i \in DOMAIN r.conflict.paths :
                   /\ Has(disk, LocalName(r.conflict.paths[i]))
                   /\ Has(disk, RemoteName(r.conflict.paths[i]))
              /\ InTrace(r, "merge_abort") \/ InTrace(r, "rebase_abort")
              /\ gitOp = "none"

\* C15 (as claimed): a commit that exits non-zero is followed by a log line
\* that reports the failure, not by the line that reports the commit as
\* done, and the run goes on to the second probe.
C15_CommitFailureLogged ==
  \A self \in procs :
    LET r == run[self] IN
      InTrace(r, "commit_failed")
        => /\ ~Then(r, "commit_failed", "log_committed")
           /\ r.pc \in {"check2", "push", "rebase_conflict", "save", "saving",
                        "done", "crashed"}

\* The stage of a run an event of its trace belongs to (0: none of them).
StageOf(e) ==
  IF e = "pull" THEN 1
  ELSE IF e \in {"add", "add_raised"} THEN 2
  ELSE IF e \in {"commit", "commit_failed"} THEN 3
  ELSE IF e = "rebase" THEN 4
  ELSE IF e \in {"push", "push_raised"} THEN 5
  ELSE IF e = "save" THEN 6
  ELSE 0

\* The position of sync_repo along its text.
PcRank(l) ==
  IF l = "check1" THEN 1
  ELSE IF l = "pull_conflict" THEN 2
  ELSE IF l = "scan" THEN 3
  ELSE IF l = "scanning" THEN 4
  ELSE IF l = "check2" THEN 5
  ELSE IF l = "rebase_conflict" THEN 6
  ELSE IF l = "push" THEN 7
  ELSE IF l = "save" THEN 8
  ELSE IF l = "saving" THEN 9
  ELSE 10

\* C16: in the trace of a run the pull, the commit, the rebase, the push
\* and save_hashes each occur at most once and, with the git adds, only in
\* that order; a step of a run moves it forward in sync_repo (or to the next
\* file of the scan), never back; and when every command returns, a started
\* run ends, done or by an exception.
C16_NoRetries ==
  /\ [](\A self \in procs :
          LET r == run[self] IN
            \A i, j \in DOMAIN r.trace :
              (i < j /\ StageOf(r.trace[i]) > 0 /\ StageOf(r.trace[j]) > 0)
                => \/ StageOf(r.trace[i]) < StageOf(r.trace[j])
                   \/ StageOf(r.trace[i]) = 2 /\ StageOf(r.trace[j]) = 2)
  /\ [][\A self \in procs :
          (~Ended(self) /\ run'[self] # run[self])
            => \/ PcRank(run'[self].pc) > PcRank(run[self].pc)
               \/ /\ run[self].pc = "scanning" /\ run'[self].pc = "scanning"
                  /\ run'[self].all_files \subseteq run[self].all_files
                  /\ run'[self].all_files # run[self].all_files]_vars
  /\ \A self \in Procs : (~Ended(self)) ~> Ended(self)

\* C16 witness: a run went through every stage and ended.
C16_Witness ==
  \E self \in procs :
    LET r == run[self] IN
      /\ r.pc = "done"
      /\ \A e \in {"pull", "add", "commit", "rebase", "push", "save"} : InTrace(r, e)

\* C17: nothing orders the load and the save of one run with respect to
\* those of another: what a run holds is the store as loaded at its start,
\* changed only at the paths it staged itself, and closing its save leaves
\* the store file with exactly that mapping, whatever another run has
\* written since.
C17_WholesaleRewrite ==
  /\ [](\A self \in procs :
          LET r == run[self] IN
            (r.pc \in {"check2", "save", "saving", "done"})
              => \A f \in Paths :
                   f \notin r.added => Same(r.new_hashes, r.previous_hashes, f))
  /\ [][\A self \in procs :
          (run[self].pc = "saving" /\ run'[self].pc = "done")
            => disk'[HASH_FILE] = StoreLines(run[self].new_hashes)]_vars

\* C17 witness: two runs that loaded the same store have both saved, and
\* the store lacks, or holds another digest than, the digest that one of
\* them staged and saved for a file that still has the content that run
\* hashed.
C17_Witness ==
  \E p, q \in procs :
    /\ p # q
    /\ run[p].pc = "done" /\ InTrace(run[p], "save")
    /\ run[q].pc = "done" /\ InTrace(run[q], "save")
    /\ run[q].previous_hashes = run[p].previous_hashes
    /\ ~LoadRaises(disk)
    /\ \E f \in run[p].added :
         /\ Has(disk, f) /\ disk[f] = run[p].scanned[f]
         /\ Differs(load_hashes(disk), f, run[p].scanned[f])

\* The scan of the run is over.
AfterScan(r) ==
  \/ r.pc = "scanning" /\ r.all_files = {}
  \/ r.pc \in {"check2", "rebase_conflict", "push", "save", "saving", "done"}

PulledIn(r) ==
  IF ~InTrace(r, "log_pulled") THEN {}
  ELSE {f \in UserFiles \cap DOMAIN r.scanned :
          ~Has(r.start, f) \/ r.start[f] # r.scanned[f]}

\* C19 (as claimed): a file that a successful pull rewrote or created is
\* dirty in the scan of the same run: it is staged, changed is true, the
\* commit is attempted, and the run goes through the second probe to
\* save_hashes.
C19_RemoteInducedDirty ==
  \A self \in procs :
    LET r == run[self] IN
      (AfterScan(r) /\ PulledIn(r) # {})
        => /\ PulledIn(r) \subseteq r.added
           /\ r.changed
           /\ r.pc # "scanning" => (InTrace(r, "commit") \/ InTrace(r, "commit_failed"))
           /\ r.pc = "done" => (r.net2 # "?" /\ InTrace(r, "save"))

\* The LOCAL_ and REMOTE_ names of the paths of a conflict set.
Copies(paths) ==
  {LocalName(paths[i]) : i \in DOMAIN paths} \cup {RemoteName(paths[i]) : i \in DOMAIN paths}

====
